---- MODULE Spec2Model ----
(***************************************************************************)
(* Model of etl.py: the Spark job that turns the song catalog and the      *)
(* event log into the tables songs, artists, users, time and songplays.    *)
(*                                                                         *)
(* A dataframe is a sequence of rows (records); a table at the output path *)
(* is the sequence of rows last written there.  Column values are strings  *)
(* or integers; a missing JSON field / SQL NULL is Null (string columns)   *)
(* or NullNum (numeric columns).                                           *)
(***************************************************************************)
EXTENDS Integers, Sequences, FiniteSets, Bags, TLC

\* ------------------------------------------------------------------ bounds
MaxSongs == 3          \* catalog records in one input
MaxLogs == 3           \* log records in one input
MaxRowsPerPartition == 2   \* largest partition size the engine may pick

\* ------------------------------------------------------------------ values
Null == "NULL"
NullNum == -1

Runs == {1, 2}
Tables == {"songs", "artists", "users", "time", "songplays"}

\* ------------------------------------------------------- generic dataframe
\* DataFrame.select / withColumn: the same expression applied to every row.
MapSeq(s, F(_)) == [i \in 1..Len(s) |-> F(s[i])]

RECURSIVE Flatten(_)
Flatten(ss) ==
    IF ss = <<>> THEN <<>> ELSE Head(ss) \o Flatten(Tail(ss))

Range(s) == {s[i] : i \in 1..Len(s)}

\* col(c).isNotNull() on a string column: the empty string is not NULL.
IsNotNull(v) == v # Null

\* DataFrame.distinct(): one row per distinct value of the whole row
\* (NULLs compare equal to each other here, as in GROUP BY).
RECURSIVE DistinctFrom(_, _)
DistinctFrom(s, seen) ==
    IF s = <<>> THEN <<>>
    ELSE IF Head(s) \in seen THEN DistinctFrom(Tail(s), seen)
    ELSE <<Head(s)>> \o DistinctFrom(Tail(s), seen \cup {Head(s)})

Distinct(s) == DistinctFrom(s, {})

\* DataFrameWriter mode 'overwrite': the destination is replaced.
AppendMode(old, new) == old \o new
Overwrite(old, new) == new

\* ------------------------------------------------------------------ inputs
\* One JSON document of song_data (read at lines 45 and 150).
SongRec(sid, title, aid, yr, dur, aname) ==
    [song_id |-> sid, title |-> title, artist_id |-> aid, year |-> yr,
     duration |-> dur, artist_name |-> aname, artist_location |-> "X",
     artist_latitude |-> NullNum, artist_longitude |-> NullNum]

\* One JSON document of log_data (read at line 98).
LogRec(uid, level, ts, page, artist) ==
    [userId |-> uid, firstName |-> "F", lastName |-> "L", gender |-> "M",
     level |-> level, ts |-> ts, page |-> page, sessionId |-> 5,
     location |-> "X", userAgent |-> "UA", artist |-> artist]

\* The catalog documents the inputs are drawn from.
SongFiles ==
    << SongRec("S1", "T1", "A1", 2000, 200, "Max"),
       SongRec("S2", "T2", "A1", 2000, 180, "Max"),
       SongRec(Null, "T3", "A2", 1999, 150, "Ann"),
       SongRec("",   "T4", "A3", 2001, 120, Null),
       SongRec("S5", "T5", Null, NullNum, 100, "Ann") >>

\* The log documents the inputs are drawn from.
LogFiles ==
    << LogRec("U1", "free", 1000000, "NextSong", "Max"),
       LogRec("U1", "paid", 2000500, "NextSong", "Zed"),
       LogRec("U2", "free", 4000000, "Home",     "Max"),
       LogRec(Null, "free", 1000000, "NextSong", "Ann"),
       LogRec("",   "paid", 2000500, "NextSong", Null),
       LogRec("U1", "free", NullNum, "NextSong", "Max") >>

\* The datasets a glob can match: up to n documents of files, listed in path
\* order (a document may be present more than once).
RECURSIVE Listings(_, _)
Listings(files, n) ==
    IF n = 0 THEN {<<>>}
    ELSE LET shorter == Listings(files, n - 1)
         IN  shorter \cup
             {Append(s, files[i]) : s \in shorter, i \in 1..Len(files)}

IsSorted(files, s) ==
    \A i \in 1..Len(s) - 1 :
        \E a, b \in 1..Len(files) : a <= b /\ files[a] = s[i] /\ files[b] = s[i + 1]

SongInputs == {s \in Listings(SongFiles, MaxSongs) : IsSorted(SongFiles, s)}
LogInputs == {s \in Listings(LogFiles, MaxLogs) : IsSorted(LogFiles, s)}

\* ------------------------------------------------------- process_song_data
SongsRow(r) ==
    [song_id |-> r.song_id, title |-> r.title, artist_id |-> r.artist_id,
     year |-> r.year, duration |-> r.duration]

SongsTableNoDistinct(df) ==
    SelectSeq(MapSeq(df, SongsRow), LAMBDA row : IsNotNull(row.song_id))
SongsTable(df) ==
    Distinct(SelectSeq(MapSeq(df, SongsRow), LAMBDA row : IsNotNull(row.song_id)))

ArtistsRow(r) ==
    [artist_id |-> r.artist_id, name |-> r.artist_name,
     location |-> r.artist_location, latitude |-> r.artist_latitude,
     longitude |-> r.artist_longitude]

ArtistsTableOfSongs(df) ==
    Distinct(MapSeq(SelectSeq(df, LAMBDA r : IsNotNull(r.song_id) /\ IsNotNull(r.artist_id)),
                    ArtistsRow))
ArtistsTable(df) ==
    Distinct(MapSeq(SelectSeq(df, LAMBDA r : IsNotNull(r.artist_id)), ArtistsRow))

\* -------------------------------------------------------- process_log_data
NoFilter(df) == df
FilterNextSong(df) == SelectSeq(df, LAMBDA r : r.page = "NextSong")

UsersRow(r) ==
    [user_id |-> r.userId, first_name |-> r.firstName,
     last_name |-> r.lastName, gender |-> r.gender, level |-> r.level]

UsersTableLatestLevel(df) ==
    LET rows == MapSeq(SelectSeq(df, LAMBDA r : IsNotNull(r.userId)), UsersRow)
        Last(i) == \A j \in i + 1..Len(rows) : rows[j].user_id # rows[i].user_id
        keep == {i \in 1..Len(rows) : Last(i)}
        RECURSIVE Pick(_)
        Pick(i) == IF i > Len(rows) THEN <<>>
                   ELSE (IF i \in keep THEN <<rows[i]>> ELSE <<>>) \o Pick(i + 1)
    IN  Distinct(Pick(1))
UsersTable(df) ==
    Distinct(MapSeq(SelectSeq(df, LAMBDA r : IsNotNull(r.userId)), UsersRow))

\* get_timestamp = udf(lambda x: int(x)/1000): a true division, so the result
\* is the float ts/1000, kept here exactly as whole seconds and milliseconds.
\* The udf declares no return type, so the column is the float's text.
get_timestamp(x) == [secs |-> x \div 1000, millis |-> x % 1000]

\* get_datetime = udf(lambda x: datetime.fromtimestamp(int(x)/1000)) declares no
\* return type either: the column is a string, and the string the JVM makes of
\* the datetime object it is handed is the text of a java.util.Calendar, not a
\* timestamp literal.
get_datetime(x) == [text |-> "java.util.GregorianCalendar", instant |-> x]

\* int(None) raises TypeError inside the udf.
UdfRaises(df) == \E i \in 1..Len(df) : df[i].ts = NullNum

\* The implicit cast of a string column to a timestamp, which hour(), month(),
\* year() ... apply to their argument: NULL unless the string is a timestamp
\* literal (the session is not in ANSI mode: Spark 3 with hadoop-aws 3.2.0).
IsTimestamp(d) == d.text = "timestamp"

\* Civil date of a day number counted from 1970-01-01 (session time zone UTC).
CivilDate(days) ==
    LET z == days + 719468
        era == z \div 146097
        doe == z - era * 146097
        yoe == (doe - doe \div 1460 + doe \div 36524 - doe \div 146096) \div 365
        doy == doe - (365 * yoe + yoe \div 4 - yoe \div 100)
        mp == (5 * doy + 2) \div 153
        m == IF mp < 10 THEN mp + 3 ELSE mp - 9
    IN  [year |-> yoe + era * 400 + (IF m <= 2 THEN 1 ELSE 0),
         month |-> m,
         day |-> doy - (153 * mp + 2) \div 5 + 1]

DaysOf(d) == (d.instant \div 1000) \div 86400

hour(d) == IF IsTimestamp(d) THEN ((d.instant \div 1000) \div 3600) % 24 ELSE NullNum
dayofmonth(d) == IF IsTimestamp(d) THEN CivilDate(DaysOf(d)).day ELSE NullNum
month(d) == IF IsTimestamp(d) THEN CivilDate(DaysOf(d)).month ELSE NullNum
year(d) == IF IsTimestamp(d) THEN CivilDate(DaysOf(d)).year ELSE NullNum
\* Sunday = 1 ... Saturday = 7; 1970-01-01 was a Thursday.
dayofweek(d) == IF IsTimestamp(d) THEN ((DaysOf(d) + 4) % 7) + 1 ELSE NullNum
\* ISO 8601 week: the week of the Thursday of the date's Monday-based week.
weekofyear(d) ==
    IF IsTimestamp(d)
    THEN LET days == DaysOf(d)
             thursday == days - ((days + 3) % 7) + 3
             y == CivilDate(thursday).year
             RECURSIVE Jan1(_)
             Jan1(n) == IF CivilDate(n).year = y /\ CivilDate(n).month = 1
                             /\ CivilDate(n).day = 1
                        THEN n ELSE Jan1(n - 1)
         IN  (thursday - Jan1(thursday)) \div 7 + 1
    ELSE NullNum

\* df after lines 122 and 126: the filtered log with start_time and datetime.
WithTimes(df) ==
    MapSeq(df, LAMBDA r : [log |-> r, start_time |-> get_timestamp(r.ts),
                           datetime |-> get_datetime(r.ts)])

TimeRow(r) ==
    [start_time |-> r.start_time, datetime |-> r.datetime,
     hour |-> hour(r.datetime), day |-> dayofmonth(r.datetime),
     week |-> weekofyear(r.datetime), month |-> month(r.datetime),
     year |-> year(r.datetime), weekday |-> dayofweek(r.datetime)]

TimeTableOfUsers(df) ==
    Distinct(MapSeq(SelectSeq(df, LAMBDA r : IsNotNull(r.log.userId)), TimeRow))
TimeTable(df) == Distinct(MapSeq(df, TimeRow))

\* col("artist") == col("song_df.artist_name"): NULL on either side is no match.
JoinCondition(l, s) ==
    /\ l.log.artist # Null
    /\ s.artist_name # Null
    /\ l.log.artist = s.artist_name

SongplayRow(l, s) ==
    [start_time |-> l.start_time, user_id |-> l.log.userId,
     level |-> l.log.level, song_id |-> s.song_id, artist_id |-> s.artist_id,
     session_id |-> l.log.sessionId, location |-> l.log.location,
     user_agent |-> l.log.userAgent, year |-> year(l.datetime),
     month |-> month(l.datetime)]

\* df.join(song_df, ..., 'inner').select(...): one row per matching pair.
Join(df, song_df) ==
    Flatten(MapSeq(df, LAMBDA l :
        MapSeq(SelectSeq(song_df, LAMBDA s : JoinCondition(l, s)),
               LAMBDA s : SongplayRow(l, s))))

\* monotonically_increasing_id(): partition index in the upper bits, position
\* within the partition in the lower 33 bits.  The value partition * 2^33 +
\* offset is kept as the pair.  `size` is the number of rows the engine puts in
\* each partition of the joined dataframe.
monotonically_increasing_id(i, size) ==
    [partition |-> (i - 1) \div size, offset |-> (i - 1) % size]

WithSongplayId(rows, size) ==
    [i \in 1..Len(rows) |->
        [start_time |-> rows[i].start_time, user_id |-> rows[i].user_id,
         level |-> rows[i].level, song_id |-> rows[i].song_id,
         artist_id |-> rows[i].artist_id, session_id |-> rows[i].session_id,
         location |-> rows[i].location, user_agent |-> rows[i].user_agent,
         year |-> rows[i].year, month |-> rows[i].month,
         songplay_id |-> monotonically_increasing_id(i, size)]]

SongplaysTable(df, song_df, size) == WithSongplayId(Join(df, song_df), size)

\* ------------------------------------------------------------------- state
VARIABLES
    song_data,    \* song_data[r]: the documents run r's song_data glob matches
    log_data,     \* log_data[r]: the documents run r's log_data glob matches
    succession,   \* TRUE: main is started again only after the earlier run ended
    store,        \* store[t]: the rows at <output_data>/<t>.parquet
    pc,           \* pc[r]: "idle", the table run r writes next, "done", "failed"
    written,      \* written[r]: the tables run r has written, in order
    failed,       \* failed[r]: an exception has left main in run r
    lastWriter,   \* lastWriter[t]: the run whose write store[t] holds, 0: none
    before        \* before[r]: the output path as run r found it

vars == <<song_data, log_data, succession, store, pc, written, failed,
          lastWriter, before>>

\* main, lines 180-181, and the order of the writes within the two functions.
TableOrder == <<"songs", "artists", "users", "time", "songplays">>

Position(t) == CHOOSE i \in 1..Len(TableOrder) : TableOrder[i] = t

Successor(t) ==
    IF Position(t) = Len(TableOrder) THEN "done" ELSE TableOrder[Position(t) + 1]

\* An exception is not caught anywhere: it ends main.
ContinueAfterError(t) == Successor(t)
OnException(t) == "failed"

\* What an earlier job left at the output path.
PriorOutput ==
    [t \in Tables |->
        CASE t = "songs" ->
               <<[song_id |-> "S0", title |-> "T0", artist_id |-> "A0",
                  year |-> 1990, duration |-> 90]>>
          [] t = "artists" ->
               <<[artist_id |-> "A0", name |-> "Old", location |-> "X",
                  latitude |-> NullNum, longitude |-> NullNum]>>
          [] t = "users" ->
               <<[user_id |-> "U0", first_name |-> "F", last_name |-> "L",
                  gender |-> "M", level |-> "free"]>>
          [] t = "time" ->
               <<TimeRow([start_time |-> get_timestamp(500),
                          datetime |-> get_datetime(500)])>>
          [] t = "songplays" -> <<>>]

TypeOK ==
    /\ pc \in [Runs -> {"idle", "done", "failed"} \cup Tables]
    /\ lastWriter \in [Tables -> {0} \cup Runs]
    /\ failed \in [Runs -> BOOLEAN]
    /\ succession \in BOOLEAN

InitRun ==
    /\ store = PriorOutput
    /\ pc = [r \in Runs |-> "idle"]
    /\ written = [r \in Runs |-> <<>>]
    /\ failed = [r \in Runs |-> FALSE]
    /\ lastWriter = [t \in Tables |-> 0]
    /\ before = [r \in Runs |-> PriorOutput]

\* main run twice in succession against the same input.
Init ==
    /\ \E s \in SongInputs : song_data = [r \in Runs |-> s]
    /\ \E l \in LogInputs : log_data = [r \in Runs |-> l]
    /\ succession = TRUE
    /\ InitRun

\* Two runs of main at once, each seeing the input bucket as it was when the
\* run listed it: the first documents of the bucket, which only grows, run 1
\* being the run that listed it first.
InitConc ==
    /\ \E j, k \in 0..MaxSongs :
           /\ j <= k
           /\ song_data = [r \in Runs |-> SubSeq(SongFiles, 1, IF r = 1 THEN j ELSE k)]
    /\ \E j, k \in 0..MaxLogs :
           /\ j <= k
           /\ log_data = [r \in Runs |-> SubSeq(LogFiles, 1, IF r = 1 THEN j ELSE k)]
    /\ song_data[1] # song_data[2] \/ log_data[1] # log_data[2]
    /\ succession = FALSE
    /\ InitRun

\* ----------------------------------------------------------------- actions
\* main starts: lines 176-178.
Start(r) ==
    /\ pc[r] = "idle"
    /\ succession => \A q \in Runs : q < r => pc[q] = "done"
    /\ pc' = [pc EXCEPT ![r] = TableOrder[1]]
    /\ before' = [before EXCEPT ![r] = store]
    /\ UNCHANGED <<song_data, log_data, succession, store, written, failed,
                   lastWriter>>

\* <table>.write...parquet(path, 'overwrite') returns.
Commit(r, t, rows) ==
    /\ store' = [store EXCEPT ![t] = Overwrite(@, rows)]
    /\ pc' = [pc EXCEPT ![r] = Successor(t)]
    /\ written' = [written EXCEPT ![r] = Append(@, t)]
    /\ lastWriter' = [lastWriter EXCEPT ![t] = r]
    /\ UNCHANGED <<song_data, log_data, succession, failed, before>>

\* An exception propagates out of main.
AbortWithCleanup(r) ==
    /\ pc' = [pc EXCEPT ![r] = OnException(pc[r])]
    /\ failed' = [failed EXCEPT ![r] = TRUE]
    /\ store' = [t \in Tables |->
                    IF t \in Range(written[r]) THEN before[r][t] ELSE store[t]]
    /\ UNCHANGED <<song_data, log_data, succession, written, lastWriter, before>>
Abort(r) ==
    /\ pc' = [pc EXCEPT ![r] = OnException(pc[r])]
    /\ failed' = [failed EXCEPT ![r] = TRUE]
    /\ UNCHANGED <<song_data, log_data, succession, store, written,
                   lastWriter, before>>

\* process_song_data, lines 42-57.
WriteSongs(r) ==
    /\ pc[r] = "songs"
    /\ Commit(r, "songs", SongsTable(song_data[r]))

\* process_song_data, lines 63-79.
WriteArtists(r) ==
    /\ pc[r] = "artists"
    /\ Commit(r, "artists", ArtistsTable(song_data[r]))

\* process_log_data, lines 93-118.
WriteUsers(r) ==
    /\ pc[r] = "users"
    /\ Commit(r, "users", UsersTable(FilterNextSong(log_data[r])))

\* process_log_data, lines 121-147: the first job that runs the two udfs.
WriteTime(r) ==
    /\ pc[r] = "time"
    /\ LET df == FilterNextSong(log_data[r])
       IN  IF UdfRaises(df)
           THEN Abort(r)
           ELSE Commit(r, "time", TimeTable(WithTimes(df)))

\* process_log_data, lines 150-172.
WriteSongplays(r) ==
    /\ pc[r] = "songplays"
    /\ \E size \in 1..MaxRowsPerPartition :
           Commit(r, "songplays",
                  SongplaysTable(WithTimes(FilterNextSong(log_data[r])),
                                 song_data[r], size))

\* A read or a write fails (the input is unreadable, the output unwritable),
\* or the process is killed, before the current table is committed.
Fail(r) ==
    /\ pc[r] \in Tables
    /\ Abort(r)

Next ==
    \E r \in Runs :
        \/ Start(r)
        \/ WriteSongs(r)
        \/ WriteArtists(r)
        \/ WriteUsers(r)
        \/ WriteTime(r)
        \/ WriteSongplays(r)
        \/ Fail(r)

Spec == Init /\ [][Next]_vars
SpecConc == InitConc /\ [][Next]_vars

\* ------------------------------------------------------------------ claims
BagOf(s) == [x \in Range(s) |-> Cardinality({i \in 1..Len(s) : s[i] = x})]

NoTwoRowsEqual(s) == \A i, j \in 1..Len(s) : s[i] = s[j] => i = j

\* The log rows process_log_data keeps, for the run that wrote table t last.
Filtered(r) == SelectSeq(log_data[r], LAMBDA e : e.page = "NextSong")

HasMatch(e, catalog) ==
    \E j \in 1..Len(catalog) :
        e.artist # Null /\ e.artist = catalog[j].artist_name

\* C1: songplays has at most as many rows as there are NextSong log rows, and
\* exactly as many as there are NextSong log rows whose artist equals the
\* artist_name of at least one catalog record.
C1_OneRowPerMatchedEvent ==
    \A r \in Runs :
        lastWriter["songplays"] = r =>
            /\ Len(store["songplays"]) <= Len(Filtered(r))
            /\ Len(store["songplays"]) =
                   Cardinality({i \in 1..Len(Filtered(r)) :
                                   HasMatch(Filtered(r)[i], song_data[r])})

\* C2: every row of a written table has non-null partition columns: songs
\* year and artist_id, time year and month, songplays year and month.
C2_PartitionColumnsNotNull ==
    /\ lastWriter["songs"] # 0 =>
           \A row \in Range(store["songs"]) :
               row.year # NullNum /\ row.artist_id # Null
    /\ lastWriter["time"] # 0 =>
           \A row \in Range(store["time"]) :
               row.year # NullNum /\ row.month # NullNum
    /\ lastWriter["songplays"] # 0 =>
           \A row \in Range(store["songplays"]) :
               row.year # NullNum /\ row.month # NullNum

\* C3 as stated: the written songs table has no row whose song_id is null or
\* the empty string, and no two of its rows are equal in all five columns.
C3_NoNullOrEmptySongId ==
    lastWriter["songs"] # 0 =>
        /\ \A row \in Range(store["songs"]) :
               row.song_id # Null /\ row.song_id # ""
        /\ NoTwoRowsEqual(store["songs"])

\* C3 amended: the written songs table has no row whose song_id is null (a
\* row whose song_id is the empty string is kept), and no two of its rows are
\* equal in all five columns.
C3_NoNullSongId ==
    lastWriter["songs"] # 0 =>
        /\ \A row \in Range(store["songs"]) : row.song_id # Null
        /\ NoTwoRowsEqual(store["songs"])

\* C3 witness: songs was written from a catalog holding the same song twice, a
\* song with a null song_id and a song with an empty song_id.
C3_Witness ==
    \E r \in Runs :
        /\ lastWriter["songs"] = r
        /\ \E i, j \in 1..Len(song_data[r]) :
               i # j /\ song_data[r][i] = song_data[r][j]
                     /\ SongsRow(song_data[r][i]) \in Range(store["songs"])
        /\ \E i \in 1..Len(song_data[r]) : song_data[r][i].song_id = Null

\* Two NextSong events of one user that differ in level only.
LevelChange(a, b) ==
    /\ a.userId = b.userId
    /\ a.firstName = b.firstName
    /\ a.lastName = b.lastName
    /\ a.gender = b.gender
    /\ a.level # b.level

\* C4 as stated: the written users table has no row whose user_id is null or
\* the empty string, no two rows equal in all five columns, and both rows of
\* two NextSong events that differ in level only.
C4_NoNullOrEmptyUserId ==
    \A r \in Runs :
        lastWriter["users"] = r =>
            /\ \A row \in Range(store["users"]) :
                   row.user_id # Null /\ row.user_id # ""
            /\ NoTwoRowsEqual(store["users"])
            /\ \A a, b \in Range(Filtered(r)) :
                   LevelChange(a, b) =>
                       {UsersRow(a), UsersRow(b)} \subseteq Range(store["users"])

\* C4 amended: the written users table has no row whose user_id is null (a
\* row whose user_id is the empty string is kept), no two rows equal in all
\* five columns, and both rows of two NextSong events that have the same
\* non-null user_id, first_name, last_name and gender but different level.
C4_NoNullUserId ==
    \A r \in Runs :
        lastWriter["users"] = r =>
            /\ \A row \in Range(store["users"]) : row.user_id # Null
            /\ NoTwoRowsEqual(store["users"])
            /\ \A a, b \in Range(Filtered(r)) :
                   LevelChange(a, b) /\ a.userId # Null =>
                       {UsersRow(a), UsersRow(b)} \subseteq Range(store["users"])

\* C4 witness: users was written from a log in which one user has NextSong
\* events at two levels, and holds a row for each.
C4_Witness ==
    \E r \in Runs :
        /\ lastWriter["users"] = r
        /\ \E a, b \in Range(Filtered(r)) : LevelChange(a, b) /\ a.userId # Null
        /\ \E x, y \in Range(store["users"]) :
               x.user_id = y.user_id /\ x.level # y.level

\* The input with every record whose page is not "NextSong" removed.
RemoveOtherPages(log) == SelectSeq(log, LAMBDA e : e.page = "NextSong")

DropId(rows) ==
    MapSeq(rows, LAMBDA row :
        [start_time |-> row.start_time, user_id |-> row.user_id,
         level |-> row.level, song_id |-> row.song_id,
         artist_id |-> row.artist_id, session_id |-> row.session_id,
         location |-> row.location, user_agent |-> row.user_agent,
         year |-> row.year, month |-> row.month])

FromNextSong(log, Derived(_)) ==
    \E i \in 1..Len(log) : log[i].page = "NextSong" /\ Derived(log[i])

\* C5: every row of users, time and songplays is derived from a log record
\* whose page is "NextSong", and each of the three tables is the table the
\* same input without its other records gives.
C5_OnlyNextSong ==
    \A r \in Runs :
        LET log == log_data[r]
            clean == RemoveOtherPages(log)
        IN  /\ lastWriter["users"] = r =>
                /\ \A row \in Range(store["users"]) :
                       FromNextSong(log, LAMBDA e : UsersRow(e) = row)
                /\ store["users"] = UsersTable(FilterNextSong(clean))
            /\ lastWriter["time"] = r =>
                /\ \A row \in Range(store["time"]) :
                       FromNextSong(log, LAMBDA e :
                           e.ts # NullNum /\ get_timestamp(e.ts) = row.start_time)
                /\ store["time"] = TimeTable(WithTimes(FilterNextSong(clean)))
            /\ lastWriter["songplays"] = r =>
                /\ \A row \in Range(store["songplays"]) :
                       FromNextSong(log, LAMBDA e :
                           /\ e.ts # NullNum
                           /\ get_timestamp(e.ts) = row.start_time
                           /\ e.userId = row.user_id
                           /\ e.level = row.level
                           /\ HasMatch(e, song_data[r]))
                /\ \E size \in 1..MaxRowsPerPartition :
                       store["songplays"] =
                           SongplaysTable(WithTimes(FilterNextSong(clean)),
                                          song_data[r], size)

\* C5 witness: the three tables were written from a log holding a record of
\* another page whose artist is in the catalog, next to a NextSong record.
C5_Witness ==
    \E r \in Runs :
        /\ pc[r] = "done"
        /\ lastWriter["songplays"] = r
        /\ \E e \in Range(log_data[r]) :
               e.page # "NextSong" /\ HasMatch(e, song_data[r])
        /\ store["songplays"] # <<>>

\* C6: a catalog record with a null song_id and a non-null artist_id has no
\* row in songs and has its (artist_id, name, location, latitude, longitude)
\* row in artists.
C6_ArtistKeptWithoutSongId ==
    \A r \in Runs :
        lastWriter["songs"] = r /\ lastWriter["artists"] = r =>
            \A rec \in Range(song_data[r]) :
                rec.song_id = Null /\ rec.artist_id # Null =>
                    /\ SongsRow(rec) \notin Range(store["songs"])
                    /\ ArtistsRow(rec) \in Range(store["artists"])

\* C6 witness: songs and artists were written from a catalog holding a record
\* with a null song_id and an artist_id.
C6_Witness ==
    \E r \in Runs :
        /\ lastWriter["songs"] = r /\ lastWriter["artists"] = r
        /\ \E rec \in Range(song_data[r]) :
               rec.song_id = Null /\ rec.artist_id # Null

\* C7 as stated: after main has run twice in succession on the same input,
\* every table the second run wrote holds the rows it held after the first
\* run, all columns equal, songplay_id included.
C7_SecondRunSameRows ==
    pc[1] = "done" =>
        \A t \in Range(written[2]) : BagOf(store[t]) = BagOf(before[2][t])

RowsApartFromId(t, rows) == IF t = "songplays" THEN DropId(rows) ELSE rows

\* C7 amended: after main has run twice in succession on the same input,
\* every table the second run wrote holds the rows it held after the first
\* run, all columns other than songplay_id equal.
C7_SecondRunSameRowsApartFromId ==
    pc[1] = "done" =>
        \A t \in Range(written[2]) :
            BagOf(RowsApartFromId(t, store[t])) =
                BagOf(RowsApartFromId(t, before[2][t]))

\* C7 witness: the second run has written all five tables, songplays with
\* rows, and songplays is not the table the first run wrote.
C7_Witness ==
    /\ pc[1] = "done" /\ pc[2] = "done"
    /\ Len(store["songplays"]) >= 2
    /\ store["songplays"] # before[2]["songplays"]

\* C8: each run writes the tables in the order songs, artists, users, time,
\* songplays, one at a time; once a stage has failed the run stays aborted and
\* writes no further table.
C8_OrderAndAbort ==
    /\ [](\A r \in Runs :
            /\ written[r] = SubSeq(TableOrder, 1, Len(written[r]))
            /\ pc[r] \in Tables => Len(written[r]) = Position(pc[r]) - 1
            /\ failed[r] => pc[r] = "failed"
            /\ failed[r] /\ Len(written[r]) < 2 =>
                   Range(written[r]) \cap {"users", "time", "songplays"} = {})
    /\ [][\A r \in Runs :
            failed[r] => pc'[r] = "failed" /\ written'[r] = written[r]]_vars

\* C8 witness: a run has written all five tables, and the next run failed in
\* process_song_data after writing songs.
C8_Witness ==
    \E r, q \in Runs :
        /\ failed[r] /\ written[r] = <<"songs">>
        /\ pc[q] = "done" /\ written[q] = TableOrder

TableOf(r, t) ==
    CASE t = "songs" -> SongsTable(song_data[r])
      [] t = "artists" -> ArtistsTable(song_data[r])
      [] t = "users" -> UsersTable(Filtered(r))
      [] t = "time" -> TimeTable(WithTimes(Filtered(r)))
      [] t = "songplays" -> DropId(SongplaysTable(WithTimes(Filtered(r)), song_data[r], 1))

\* C9: with two runs at once on one output path, every table holds exactly
\* what the run that wrote it last produced (or the earlier content, if no run
\* has written it), and a run that fails or is killed leaves every table as it
\* was, so the tables it wrote stay and the others are not its own.
C9_LastWriterWins ==
    /\ [](\A t \in Tables :
            IF lastWriter[t] = 0
            THEN store[t] = PriorOutput[t]
            ELSE RowsApartFromId(t, store[t]) = TableOf(lastWriter[t], t))
    /\ [][\A r \in Runs : ~failed[r] /\ failed'[r] => store' = store]_vars

\* C9 witness: both runs have ended, one of them killed part of the way, and
\* the tables come from different runs and differ from what one run gives.
C9_Witness ==
    /\ \A r \in Runs : pc[r] \in {"done", "failed"}
    /\ \E r \in Runs : failed[r] /\ written[r] # <<>>
    /\ \E t, u \in Tables :
           /\ lastWriter[t] = 1 /\ lastWriter[u] = 2
           /\ store[t] # RowsApartFromId(t, TableOf(2, t))
           /\ RowsApartFromId(u, store[u]) # TableOf(1, u)

\* C10: after a completed run of process_log_data, every row of songplays has
\* a row in time with the same start_time, year and month.
C10_SongplaysInTime ==
    \A r \in Runs :
        pc[r] = "done" /\ lastWriter["time"] = r /\ lastWriter["songplays"] = r =>
            \A sp \in Range(store["songplays"]) :
                \E tm \in Range(store["time"]) :
                    /\ tm.start_time = sp.start_time
                    /\ tm.year = sp.year
                    /\ tm.month = sp.month

\* C10 witness: a completed run whose songplays has a row of an event with a
\* null userId.
C10_Witness ==
    \E r \in Runs :
        /\ pc[r] = "done" /\ lastWriter["time"] = r /\ lastWriter["songplays"] = r
        /\ \E sp \in Range(store["songplays"]) : sp.user_id = Null

====
